---- MODULE Spec2Model ----
(***************************************************************************)
(* The logging facade (LogLayer) and the log batch transformers of         *)
(* box-content-preview, as a state machine.                                *)
(*                                                                         *)
(* The facade part: a set of LogLayer objects, the process-wide slot       *)
(* global.Box / global.Box.Logger, and the trace of what the latest call   *)
(* wrote to the console and forwarded to a logger.                         *)
(* The transformer part: a list of log records and the batch the latest    *)
(* transform call returned.                                                *)
(***************************************************************************)
EXTENDS Integers, Sequences, FiniteSets, TLC

\* ------------------------------------------------------------------ bounds
NumFacades == 1     \* LogLayer objects that may be constructed
MaxLogs == 2        \* longest list of records handed to a transformer
MaxTime == 2        \* timestamps are 1..MaxTime

Facades == 1..NumFacades
Times == 1..MaxTime

\* ------------------------------------------------- values of the language
\* A JavaScript value that may be given as a console level: a number, a
\* string, or undefined.
Num(n) == [t |-> "num", n |-> n, s |-> ""]
Str(s) == [t |-> "str", n |-> 0, s |-> s]
Undefined == [t |-> "undef", n |-> 0, s |-> ""]

\* The result of ToNumber: a number or NaN.
NaN == [nan |-> TRUE, n |-> 0]
Number(n) == [nan |-> FALSE, n |-> n]

\* ToNumber, as the <= of canPrintLog applies it to its left operand: a
\* number is itself, the empty string is 0, a string of digits is its value,
\* any other string and undefined are NaN.
ToNumber(v) ==
    IF v.t = "num" THEN Number(v.n)
    ELSE IF v.t = "str" /\ v.s = "" THEN Number(0)
    ELSE IF v.t = "str" /\ v.s = "1" THEN Number(1)
    ELSE NaN

\* a <= b of the language, b a number: false whenever a is NaN.
LessEq(a, b) == ~a.nan /\ a.n <= b

\* Truthiness, as `if (consoleLevel)` tests it.
Truthy(v) ==
    CASE v.t = "num" -> v.n # 0
      [] v.t = "str" -> v.s # ""
      [] OTHER -> FALSE

\* --------------------------------------------------------------- constants
\* ./logConstants
LOG_TYPES ==
    [info |-> "info", warning |-> "warning", error |-> "error",
     uncaught_error |-> "uncaught_error", metric |-> "metric"]

CONSOLE_LEVELS == [info |-> 0, warning |-> 1, error |-> 2, silent |-> 3]

LOG_CODES ==
    [error |-> "ERROR", metric |-> "METRIC", warning |-> "WARNING", info |-> "INFO"]

\* ./metricsConstants
METRIC_CONTROL == "metric_control"

DEFAULT_CONSOLE_LEVEL == Num(CONSOLE_LEVELS.silent)

\* -------------------------------------------------------------- the inputs
\* Log types canPrintLog may be asked about: the five of LOG_TYPES and one
\* that is none of them.
LogTypeInputs ==
    {LOG_TYPES.info, LOG_TYPES.warning, LOG_TYPES.error,
     LOG_TYPES.uncaught_error, LOG_TYPES.metric, "other"}

\* The four recognized console levels.
RecognizedLevels ==
    {Num(CONSOLE_LEVELS.info), Num(CONSOLE_LEVELS.warning),
     Num(CONSOLE_LEVELS.error), Num(CONSOLE_LEVELS.silent)}

\* Values a caller may hand to setConsoleLevel or config.consoleLevel: the
\* recognized levels, a number below the lowest, a number above the highest,
\* a level name (a string that is no number), and the empty string.
LevelInputs ==
    RecognizedLevels \cup {Num(-1), Num(4), Str("verbose"), Str("")}

ConfigInputs == {[consoleLevel |-> v] : v \in LevelInputs \cup {Undefined}}

\* Argument lists of info / warn / error.
ArgInputs == {<<>>, <<"a">>, <<"a", "b">>}

\* Loggers are numbered: 0 is no logger (undefined / null), HostLogger is a
\* logger the consuming application registers, and the k-th logger built by
\* `new Logger(config)` is k.
NoLogger == 0
HostLogger == 100

\* ------------------------------------------------------------------- state
VARIABLES
    constructed,    \* constructed[f]: the constructor of facade f has returned
    consoleLevel,   \* consoleLevel[f]: this.consoleLevel
    loggerRef,      \* loggerRef[f]: this.loggerRef (NoLogger when undefined / null)
    box,            \* global.Box: whether it exists, and its Logger property
    created,        \* number of Logger objects built by setupGlobalLogger
    last,           \* the latest call: its arguments, console output, logger calls
    logs,           \* the records given to the transformers
    batch           \* what the latest transform call returned

transformVars == <<logs, batch>>
vars == <<constructed, consoleLevel, loggerRef, box, created, last, logs, batch>>

\* ---------------------------------------------------------- private methods
\* getConsoleFunction: the console function a log type prints with.
getConsoleFunction(type) ==
    CASE type = LOG_TYPES.warning -> "console.warn"
      [] type \in {LOG_TYPES.error, LOG_TYPES.uncaught_error} -> "console.error"
      [] OTHER -> "console.log"

\* The switch of canPrintLog: the console level a log type counts as.
typeValue(type) ==
    CASE type = LOG_TYPES.warning -> CONSOLE_LEVELS.warning
      [] type \in {LOG_TYPES.error, LOG_TYPES.uncaught_error} -> CONSOLE_LEVELS.error
      [] OTHER -> CONSOLE_LEVELS.info

\* canPrintLog with < written for <=.
canPrintLog_strict(level, type) == LessEq(ToNumber(level), typeValue(type) - 1)

\* canPrintLog written as !(this.consoleLevel > typeValue): NaN then permits.
canPrintLog_notGreater(level, type) ==
    ~(~ToNumber(level).nan /\ ToNumber(level).n > typeValue(type))

\* canPrintLog: this.consoleLevel <= typeValue.
canPrintLog(level, type) == LessEq(ToNumber(level), typeValue(type))

\* ./logUtils arrayToString: the arguments joined into one string.
RECURSIVE arrayToString(_)
arrayToString(data) ==
    IF data = <<>> THEN ""
    ELSE IF Len(data) = 1 THEN Head(data)
    ELSE Head(data) \o ", " \o arrayToString(Tail(data))

\* printLog: the console calls it makes, none or one.
printLog(level, type, data) ==
    IF canPrintLog(level, type)
    THEN <<[fn |-> getConsoleFunction(type),
            message |-> "[" \o type \o "] " \o arrayToString(data)]>>
    ELSE <<>>

\* global.Box ? global.Box.Logger : null
GlobalLogger == IF box.exists THEN box.Logger ELSE NoLogger

\* boxLoggerExists reading the slot before the cached reference.
boxLoggerRef_noMemo(f) ==
    IF GlobalLogger # NoLogger THEN GlobalLogger ELSE loggerRef[f]

\* boxLoggerExists, its assignment: the value this.loggerRef holds after it.
boxLoggerRef(f) ==
    IF loggerRef[f] # NoLogger THEN loggerRef[f] ELSE GlobalLogger

\* boxLoggerExists without its check.
boxLoggerExists_always(f) == TRUE

\* boxLoggerExists, its result: !!this.loggerRef.
boxLoggerExists(f) == boxLoggerRef(f) # NoLogger

\* A method call on a logger reference.
Call(ref, method, args) == [logger |-> ref, method |-> method, args |-> args]

\* this.loggerRef.m(...) for the calls a method makes in order: a call on a
\* reference that is undefined or null throws a TypeError and nothing after
\* it runs.
Invoke(ref, calls) ==
    IF ref = NoLogger THEN [threw |-> TRUE, delegated |-> <<>>]
    ELSE [threw |-> FALSE, delegated |-> calls]

\* The record of one call: what it was, what it did, and the state it ran in.
Observed(op, f, args, threw, console, delegated) ==
    [op |-> op, f |-> f, args |-> args, threw |-> threw,
     console |-> console, delegated |-> delegated,
     refBefore |-> IF f \in Facades THEN loggerRef[f] ELSE NoLogger,
     slotBefore |-> GlobalLogger,
     boxBefore |-> box.exists,
     levelBefore |-> IF f \in Facades THEN consoleLevel[f] ELSE DEFAULT_CONSOLE_LEVEL]

NoCall == [op |-> "none", f |-> 0, args |-> <<>>, threw |-> FALSE,
           console |-> <<>>, delegated |-> <<>>,
           refBefore |-> NoLogger, slotBefore |-> NoLogger, boxBefore |-> FALSE,
           levelBefore |-> DEFAULT_CONSOLE_LEVEL]

\* `if (!this.boxLoggerExists()) { return; }` followed by the calls on
\* this.loggerRef: what the method forwards and whether it throws.
Delegate(f, calls) ==
    IF ~boxLoggerExists(f) THEN [threw |-> FALSE, delegated |-> <<>>]
    ELSE Invoke(boxLoggerRef(f), calls)

\* Every public method but setConsoleLevel runs boxLoggerExists once, which
\* assigns this.loggerRef; nothing else of the facade or the slot changes.
Memoize(f) ==
    /\ loggerRef' = [loggerRef EXCEPT ![f] = boxLoggerRef(f)]
    /\ UNCHANGED <<constructed, consoleLevel, box, created>>

\* ------------------------------------------------------------- constructor
\* The `new Logger(config)` of setupGlobalLogger, reached when no logger is
\* found: global.Box || global.Box.Logger throws when global.Box is undefined.
setupGlobalLoggerThrows(f) == ~boxLoggerExists(f) /\ ~box.exists

\* setupGlobalLogger without its last line, this.loggerRef = global.Box.Logger.
setupGlobalLogger_noAssign(f, config) ==
    IF boxLoggerExists(f)
    THEN /\ loggerRef' = [loggerRef EXCEPT ![f] = boxLoggerRef(f)]
         /\ UNCHANGED <<box, created>>
    ELSE /\ box' = [box EXCEPT !.Logger = created + 1]
         /\ created' = created + 1
         /\ loggerRef' = [loggerRef EXCEPT ![f] = boxLoggerRef(f)]

\* setupGlobalLogger, when it does not throw.
setupGlobalLogger(f, config) ==
    IF boxLoggerExists(f)
    THEN /\ loggerRef' = [loggerRef EXCEPT ![f] = boxLoggerRef(f)]
         /\ UNCHANGED <<box, created>>
    ELSE /\ box' = [box EXCEPT !.Logger = created + 1]
         /\ created' = created + 1
         /\ loggerRef' = [loggerRef EXCEPT ![f] = created + 1]

\* new LogLayer(config). When setupGlobalLogger throws, the expression yields
\* no object: the facade stays unconstructed and the slot is untouched.
constructor(f, config) ==
    /\ ~constructed[f]
    /\ IF setupGlobalLoggerThrows(f)
       THEN /\ last' = Observed("constructor", f, <<config>>, TRUE, <<>>, <<>>)
            /\ UNCHANGED <<constructed, consoleLevel, loggerRef, box, created>>
       ELSE /\ constructed' = [constructed EXCEPT ![f] = TRUE]
            /\ consoleLevel' =
                   [consoleLevel EXCEPT
                       ![f] = IF Truthy(config.consoleLevel)
                              THEN config.consoleLevel
                              ELSE DEFAULT_CONSOLE_LEVEL]
            /\ setupGlobalLogger(f, config)
            /\ last' = Observed("constructor", f, <<config>>, FALSE, <<>>,
                                IF boxLoggerExists(f) THEN <<>>
                                ELSE <<Call(created + 1, "new Logger", <<config>>)>>)
    /\ UNCHANGED transformVars

\* ---------------------------------------------------------- public methods
setConsoleLevel(f, level) ==
    /\ constructed[f]
    /\ consoleLevel' = [consoleLevel EXCEPT ![f] = level]
    /\ last' = Observed("setConsoleLevel", f, <<level>>, FALSE, <<>>, <<>>)
    /\ UNCHANGED <<constructed, loggerRef, box, created>>
    /\ UNCHANGED transformVars

\* info forwarding only what it printed.
info_forwardWhenPrinted(f, args) ==
    /\ constructed[f]
    /\ Memoize(f)
    /\ LET out == printLog(consoleLevel[f], LOG_TYPES.info, args)
           r == IF out = <<>> THEN [threw |-> FALSE, delegated |-> <<>>]
                ELSE Delegate(f, <<Call(boxLoggerRef(f), "info", args)>>)
       IN last' = Observed("info", f, args, r.threw, out, r.delegated)
    /\ UNCHANGED transformVars

info(f, args) ==
    /\ constructed[f]
    /\ Memoize(f)
    /\ LET r == Delegate(f, <<Call(boxLoggerRef(f), "info", args)>>)
       IN last' = Observed("info", f, args, r.threw,
                           printLog(consoleLevel[f], LOG_TYPES.info, args),
                           r.delegated)
    /\ UNCHANGED transformVars

warn(f, args) ==
    /\ constructed[f]
    /\ Memoize(f)
    /\ LET r == Delegate(f, <<Call(boxLoggerRef(f), "warn", args)>>)
       IN last' = Observed("warn", f, args, r.threw,
                           printLog(consoleLevel[f], LOG_TYPES.warning, args),
                           r.delegated)
    /\ UNCHANGED transformVars

error(f, args) ==
    /\ constructed[f]
    /\ Memoize(f)
    /\ LET r == Delegate(f, <<Call(boxLoggerRef(f), "error", args)>>)
       IN last' = Observed("error", f, args, r.threw,
                           printLog(consoleLevel[f], LOG_TYPES.error, args),
                           r.delegated)
    /\ UNCHANGED transformVars

metric(f, eventName, value) ==
    /\ constructed[f]
    /\ Memoize(f)
    /\ LET r == Delegate(f, <<Call(boxLoggerRef(f), "metric", <<eventName, value>>)>>)
       IN last' = Observed("metric", f, <<eventName, value>>, r.threw,
                           printLog(consoleLevel[f], LOG_TYPES.metric,
                                    <<eventName, value>>),
                           r.delegated)
    /\ UNCHANGED transformVars

setFile(f, file) ==
    /\ constructed[f]
    /\ Memoize(f)
    /\ LET r == Delegate(f, <<Call(boxLoggerRef(f), "setFile", <<file>>)>>)
       IN last' = Observed("setFile", f, <<file>>, r.threw, <<>>, r.delegated)
    /\ UNCHANGED transformVars

setContentType(f, type) ==
    /\ constructed[f]
    /\ Memoize(f)
    /\ LET r == Delegate(f, <<Call(boxLoggerRef(f), "setContentType", <<type>>)>>)
       IN last' = Observed("setContentType", f, <<type>>, r.threw, <<>>, r.delegated)
    /\ UNCHANGED transformVars

setupNetworkLayer(f, config) ==
    /\ constructed[f]
    /\ Memoize(f)
    /\ LET r == Delegate(f, <<Call(boxLoggerRef(f), "setupNetworkLayer", <<config>>)>>)
       IN last' = Observed("setupNetworkLayer", f, <<config>>, r.threw, <<>>,
                           r.delegated)
    /\ UNCHANGED transformVars

reset(f) ==
    /\ constructed[f]
    /\ Memoize(f)
    /\ LET r == Delegate(f, <<Call(boxLoggerRef(f), "reset", <<>>)>>)
       IN last' = Observed("reset", f, <<>>, r.threw, <<>>, r.delegated)
    /\ UNCHANGED transformVars

\* The list save hands to the logger: [LOG_TYPES.error, LOG_TYPES.metric].
SavedTypes == <<LOG_TYPES.error, LOG_TYPES.metric>>

\* save with its two calls in the other order.
save_clearFirst(f) ==
    /\ constructed[f]
    /\ Memoize(f)
    /\ LET r == Delegate(f, <<Call(boxLoggerRef(f), "clearCache", <<>>),
                              Call(boxLoggerRef(f), "save", <<SavedTypes>>)>>)
       IN last' = Observed("save", f, <<>>, r.threw, <<>>, r.delegated)
    /\ UNCHANGED transformVars

save(f) ==
    /\ constructed[f]
    /\ Memoize(f)
    /\ LET r == Delegate(f, <<Call(boxLoggerRef(f), "save", <<SavedTypes>>),
                              Call(boxLoggerRef(f), "clearCache", <<>>)>>)
       IN last' = Observed("save", f, <<>>, r.threw, <<>>, r.delegated)
    /\ UNCHANGED transformVars

\* ------------------------------------------------ the consuming application
\* The slot global.Box.Logger belongs to the consuming application, which may
\* create the namespace, register its own logger, and take either away.
HostCreateNamespace ==
    /\ ~box.exists
    /\ box' = [exists |-> TRUE, Logger |-> NoLogger]
    /\ last' = Observed("host", 0, <<>>, FALSE, <<>>, <<>>)
    /\ UNCHANGED <<constructed, consoleLevel, loggerRef, created>>
    /\ UNCHANGED transformVars

HostRegisterLogger ==
    /\ box.exists
    /\ box.Logger # HostLogger
    /\ box' = [box EXCEPT !.Logger = HostLogger]
    /\ last' = Observed("host", 0, <<>>, FALSE, <<>>, <<>>)
    /\ UNCHANGED <<constructed, consoleLevel, loggerRef, created>>
    /\ UNCHANGED transformVars

HostClearLogger ==
    /\ box.exists
    /\ box.Logger # NoLogger
    /\ box' = [box EXCEPT !.Logger = NoLogger]
    /\ last' = Observed("host", 0, <<>>, FALSE, <<>>, <<>>)
    /\ UNCHANGED <<constructed, consoleLevel, loggerRef, created>>
    /\ UNCHANGED transformVars

HostRemoveNamespace ==
    /\ box.exists
    /\ box' = [exists |-> FALSE, Logger |-> NoLogger]
    /\ last' = Observed("host", 0, <<>>, FALSE, <<>>, <<>>)
    /\ UNCHANGED <<constructed, consoleLevel, loggerRef, created>>
    /\ UNCHANGED transformVars

\* loggerRef is a public property of the object: code outside the class may
\* clear it (layer.loggerRef = undefined). No method of the class does.
DetachLogger(f) ==
    /\ constructed[f]
    /\ loggerRef[f] # NoLogger
    /\ loggerRef' = [loggerRef EXCEPT ![f] = NoLogger]
    /\ last' = Observed("detach", f, <<>>, FALSE, <<>>, <<>>)
    /\ UNCHANGED <<constructed, consoleLevel, box, created>>
    /\ UNCHANGED transformVars

\* ------------------------------------------------------------ transformers
\* A log record is {timestamp, message}; the message of a metric record is
\* {metricCode, metricValue}. The generic transformers treat the message as
\* opaque, so the same records serve both.
MetricCodeInputs == {"m1", METRIC_CONTROL}
MetricValueInputs == {"m1", "v5"}

RecordInputs ==
    [timestamp : Times,
     message : [metricCode : MetricCodeInputs, metricValue : MetricValueInputs]]

LogInputs == UNION {[1..n -> RecordInputs] : n \in 0..MaxLogs}

\* The times getISOTime may return: those of the records and a later one.
NowInputs == 1..(MaxTime + 1)

makeBatchContainer(event) == [event_type |-> event, events |-> <<>>]

NoBatch == makeBatchContainer("none")

\* The forEach of transformGeneric: one push per record.
RECURSIVE pushGeneric(_, _, _)
pushGeneric(b, event, l) ==
    IF l = <<>> THEN b
    ELSE pushGeneric(
             [b EXCEPT !.events =
                 Append(@, [timestamp |-> Head(l).timestamp,
                            value |-> Head(l).message,
                            code |-> event])],
             event, Tail(l))

\* transformGeneric stamping every event with the info code.
transformGeneric_infoCode(event, l) ==
    pushGeneric(makeBatchContainer(event), LOG_CODES.info, l)

transformGeneric(event, l) == pushGeneric(makeBatchContainer(event), event, l)

transformWarnings(l) == transformGeneric(LOG_CODES.warning, l)
transformInfo(l) == transformGeneric(LOG_CODES.info, l)
transformErrors(l) == transformGeneric(LOG_CODES.error, l)

\* The forEach of transformMetrics: a control record goes to controlEvents,
\* any other to batch.events.
RECURSIVE pushMetrics(_, _)
pushMetrics(acc, l) ==
    IF l = <<>> THEN acc
    ELSE LET log == Head(l)
             metricCode == log.message.metricCode
             metricValue == log.message.metricValue
         IN pushMetrics(
                IF metricCode = METRIC_CONTROL
                THEN [acc EXCEPT !.controlEvents =
                         Append(@, [timestamp |-> log.timestamp,
                                    code |-> metricValue])]
                ELSE [acc EXCEPT !.batch.events =
                         Append(@, [timestamp |-> log.timestamp,
                                    code |-> metricCode,
                                    value |-> metricValue])],
                Tail(l))

\* The trailing push of transformMetrics, given the result of the forEach.
pushControl(acc, now) ==
    IF Len(acc.controlEvents) # 0
    THEN [acc.batch EXCEPT !.events =
             Append(@, [timestamp |-> now, code |-> METRIC_CONTROL,
                        value |-> acc.controlEvents])]
    ELSE acc.batch

\* transformMetrics stamping the control event with the last control record's time.
transformMetrics_recordTime(l, now) ==
    LET acc == pushMetrics([batch |-> makeBatchContainer(LOG_CODES.metric),
                            controlEvents |-> <<>>], l)
    IN pushControl(acc,
                   IF Len(acc.controlEvents) # 0
                   THEN acc.controlEvents[Len(acc.controlEvents)].timestamp
                   ELSE now)

\* transformMetrics, `now` being what getISOTime returns.
transformMetrics(l, now) ==
    pushControl(pushMetrics([batch |-> makeBatchContainer(LOG_CODES.metric),
                             controlEvents |-> <<>>], l),
                now)

\* A call of an exported transformer on the records at hand.
TransformWarnings ==
    /\ batch' = transformWarnings(logs)
    /\ last' = Observed("transformWarnings", 0, <<logs>>, FALSE, <<>>, <<>>)
    /\ UNCHANGED <<constructed, consoleLevel, loggerRef, box, created, logs>>

TransformInfo ==
    /\ batch' = transformInfo(logs)
    /\ last' = Observed("transformInfo", 0, <<logs>>, FALSE, <<>>, <<>>)
    /\ UNCHANGED <<constructed, consoleLevel, loggerRef, box, created, logs>>

TransformErrors ==
    /\ batch' = transformErrors(logs)
    /\ last' = Observed("transformErrors", 0, <<logs>>, FALSE, <<>>, <<>>)
    /\ UNCHANGED <<constructed, consoleLevel, loggerRef, box, created, logs>>

TransformMetrics(now) ==
    /\ batch' = transformMetrics(logs, now)
    /\ last' = Observed("transformMetrics", 0, <<logs, now>>, FALSE, <<>>, <<>>)
    /\ UNCHANGED <<constructed, consoleLevel, loggerRef, box, created, logs>>

\* ---------------------------------------------------------- specifications
FacadeInit ==
    /\ constructed = [f \in Facades |-> FALSE]
    /\ consoleLevel = [f \in Facades |-> DEFAULT_CONSOLE_LEVEL]
    /\ loggerRef = [f \in Facades |-> NoLogger]
    /\ box = [exists |-> FALSE, Logger |-> NoLogger]
    /\ created = 0
    /\ last = NoCall

\* The facade and the consuming application; no transformer runs.
Init ==
    /\ FacadeInit
    /\ logs = <<>>
    /\ batch = NoBatch

Next ==
    \/ \E f \in Facades, config \in ConfigInputs : constructor(f, config)
    \/ \E f \in Facades, level \in LevelInputs : setConsoleLevel(f, level)
    \/ \E f \in Facades, args \in ArgInputs : info(f, args)
    \/ \E f \in Facades, args \in ArgInputs : warn(f, args)
    \/ \E f \in Facades, args \in ArgInputs : error(f, args)
    \/ \E f \in Facades : metric(f, "m1", "v5")
    \/ \E f \in Facades : setFile(f, "file1")
    \/ \E f \in Facades : setContentType(f, "text")
    \/ \E f \in Facades : setupNetworkLayer(f, "netconfig")
    \/ \E f \in Facades : reset(f)
    \/ \E f \in Facades : save(f)
    \/ HostCreateNamespace
    \/ HostRegisterLogger
    \/ HostClearLogger
    \/ HostRemoveNamespace

Spec == Init /\ [][Next]_vars

\* The same, with code outside the class also writing the public property
\* loggerRef.
OpenNext ==
    \/ Next
    \/ \E f \in Facades : DetachLogger(f)

SpecOpen == Init /\ [][OpenNext]_vars

\* The transformers alone, on every list of records within the bounds.
TInit ==
    /\ FacadeInit
    /\ logs \in LogInputs
    /\ batch = NoBatch

TNext ==
    \/ TransformWarnings
    \/ TransformInfo
    \/ TransformErrors
    \/ \E now \in NowInputs : TransformMetrics(now)

SpecT == TInit /\ [][TNext]_vars

\* ================================================================== claims
LogOps == {"info", "warn", "error", "metric"}
PassOps == {"setFile", "setContentType", "setupNetworkLayer", "reset", "save"}

\* The log type a logging method prints with.
TypeOfOp(op) ==
    CASE op = "info" -> "info"
      [] op = "warn" -> "warning"
      [] op = "error" -> "error"
      [] OTHER -> "metric"

\* The logger the facade of the latest call had at hand when the call began:
\* its cached reference or, that being empty, the one in the slot.
LoggerAtHand == IF last.refBefore # NoLogger THEN last.refBefore ELSE last.slotBefore
LoggerPresent == LoggerAtHand # NoLogger

\* ---- C1
\* Ranks under info < warning < error < silent.
Severity(type) ==
    CASE type = "warning" -> 1
      [] type \in {"error", "uncaught_error"} -> 2
      [] OTHER -> 0

ThresholdRank(level) ==
    CASE level = Num(CONSOLE_LEVELS.info) -> 0
      [] level = Num(CONSOLE_LEVELS.warning) -> 1
      [] level = Num(CONSOLE_LEVELS.error) -> 2
      [] OTHER -> 3

\* C1: with one of the four recognized levels as the threshold, canPrintLog
\* permits a log type exactly when its severity is at least the threshold
\* (warning counts as warning, error and uncaught error as error, anything
\* else, metric included, as info), so silent permits nothing; and a logging
\* method prints exactly when its type is permitted.
C1_CanPrintIffSevere ==
    /\ \A f \in Facades :
          constructed[f] /\ consoleLevel[f] \in RecognizedLevels =>
             \A L \in LogTypeInputs :
                 /\ canPrintLog(consoleLevel[f], L)
                       <=> Severity(L) >= ThresholdRank(consoleLevel[f])
                 /\ consoleLevel[f] = Num(CONSOLE_LEVELS.silent)
                       => ~canPrintLog(consoleLevel[f], L)
    /\ last.op \in LogOps /\ last.levelBefore \in RecognizedLevels =>
          (Len(last.console) = 1
              <=> Severity(TypeOfOp(last.op)) >= ThresholdRank(last.levelBefore))

\* An error is printed under the threshold warning.
C1_Witness ==
    /\ last.op = "error"
    /\ last.levelBefore = Num(CONSOLE_LEVELS.warning)
    /\ Len(last.console) = 1
    /\ last.console[1].fn = "console.error"

\* ---- C2
\* C2: save with a logger at hand calls save([error, metric]) on it once and
\* then clearCache once, in that order; without a logger it calls nothing;
\* and no call of the facade reaches clearCache except right after a save.
C2_SaveThenClear ==
    /\ last.op = "save" /\ LoggerPresent =>
          last.delegated = <<Call(LoggerAtHand, "save", <<(<<"error", "metric">>)>>),
                             Call(LoggerAtHand, "clearCache", <<>>)>>
    /\ last.op = "save" /\ ~LoggerPresent => last.delegated = <<>>
    /\ \A i \in 1..Len(last.delegated) :
          last.delegated[i].method = "clearCache" =>
             /\ last.op = "save"
             /\ i > 1
             /\ last.delegated[i - 1].method = "save"

C2_Witness ==
    /\ last.op = "save"
    /\ Len(last.delegated) = 2
    /\ last.delegated[1].method = "save"
    /\ last.delegated[2].method = "clearCache"

\* ---- C5
\* C5: info, warn, error and metric with a logger at hand call the method of
\* the same name on it exactly once with the caller's arguments, in order,
\* whether or not the call printed.
C5_ForwardsUnchanged ==
    last.op \in LogOps /\ LoggerPresent =>
       last.delegated = <<Call(LoggerAtHand, last.op, last.args)>>

\* A call that printed nothing was still forwarded with both arguments.
C5_Witness ==
    /\ last.op = "info"
    /\ last.console = <<>>
    /\ last.args = <<"a", "b">>
    /\ Len(last.delegated) = 1
    /\ last.delegated[1].args = <<"a", "b">>

\* ---- C6
\* C6: with no logger at hand no method throws or calls a logger; info, warn,
\* error and metric print exactly when the threshold permits, and setFile,
\* setContentType, setupNetworkLayer, reset and save print nothing and leave
\* the console level as it was.
C6_NoLoggerNoThrow ==
    last.op \in LogOps \cup PassOps /\ ~LoggerPresent =>
       /\ ~last.threw
       /\ last.delegated = <<>>
       /\ consoleLevel[last.f] = last.levelBefore
       /\ last.op \in LogOps =>
             /\ Len(last.console) =
                    (IF canPrintLog(last.levelBefore, TypeOfOp(last.op)) THEN 1 ELSE 0)
             /\ \A i \in 1..Len(last.console) :
                    last.console[i].fn = getConsoleFunction(TypeOfOp(last.op))
       /\ last.op \in PassOps => last.console = <<>>

\* A warning printed with no logger anywhere.
C6_Witness ==
    /\ last.op = "warn"
    /\ ~LoggerPresent
    /\ Len(last.console) = 1
    /\ ~last.threw

\* ---- C7
\* C7: constructing a facade while no logger is registered, whether the
\* namespace exists or not, completes, builds exactly one logger, puts it in
\* the slot and caches it; constructing one while a logger is registered
\* caches that logger and builds none.
C7_ConstructInstalls ==
    last.op = "constructor" =>
       /\ ~last.threw
       /\ constructed[last.f]
       /\ last.slotBefore = NoLogger =>
             /\ Len(last.delegated) = 1
             /\ last.delegated[1].method = "new Logger"
             /\ box.exists
             /\ box.Logger = last.delegated[1].logger
             /\ loggerRef[last.f] = last.delegated[1].logger
       /\ last.slotBefore # NoLogger =>
             /\ last.delegated = <<>>
             /\ loggerRef[last.f] = last.slotBefore

\* ---- C8
\* C8: a call made while the facade's reference is set leaves it as it was
\* and forwards to it, whatever the slot holds by then; a call made while
\* the reference is empty reads the slot and caches what it finds there.
C8_Memoized ==
    last.op \in LogOps \cup PassOps =>
       /\ loggerRef[last.f] = LoggerAtHand
       /\ \A i \in 1..Len(last.delegated) : last.delegated[i].logger = LoggerAtHand
       /\ LoggerPresent => last.delegated # <<>>

\* The slot holds another logger than the cached one; the call went to the
\* cached one.
C8_Witness ==
    /\ last.op = "info"
    /\ last.refBefore # NoLogger
    /\ last.slotBefore # NoLogger
    /\ last.slotBefore # last.refBefore
    /\ Len(last.delegated) = 1
    /\ last.delegated[1].logger = last.refBefore

\* ---- C9
\* C9 as stated: under any level that is none of the four recognized ones
\* canPrintLog is false for every log type and nothing is printed.
C9_UnrecognizedSilences ==
    /\ \A f \in Facades :
          constructed[f] /\ consoleLevel[f] \notin RecognizedLevels =>
             \A L \in LogTypeInputs : ~canPrintLog(consoleLevel[f], L)
    /\ last.op \in LogOps /\ last.levelBefore \notin RecognizedLevels =>
          last.console = <<>>

\* A value that silences: a number above silent, or a value that is no
\* number at all (a string other than the empty string and a numeral, or
\* undefined).
Silencing(level) ==
    \/ level.t = "num" /\ level.n > CONSOLE_LEVELS.silent
    \/ level.t = "str" /\ level.s \notin {"", "1"}
    \/ level.t = "undef"

\* A value at or below the lowest level as a number: a number below info,
\* or the empty string, which counts as 0.
BelowAll(level) ==
    \/ level.t = "num" /\ level.n < CONSOLE_LEVELS.info
    \/ level.t = "str" /\ level.s = ""

\* C9 amended: the level is not validated; an unrecognized value that is a
\* number above silent or no number at all makes canPrintLog false for every
\* log type, so nothing is printed, while one that is a number below info, or
\* the empty string, makes it true for every log type.
C9_Amended ==
    /\ \A f \in Facades :
          constructed[f] /\ consoleLevel[f] \notin RecognizedLevels =>
             /\ Silencing(consoleLevel[f]) =>
                   \A L \in LogTypeInputs : ~canPrintLog(consoleLevel[f], L)
             /\ BelowAll(consoleLevel[f]) =>
                   \A L \in LogTypeInputs : canPrintLog(consoleLevel[f], L)
    /\ last.op \in LogOps /\ last.levelBefore \notin RecognizedLevels =>
          /\ Silencing(last.levelBefore) => last.console = <<>>
          /\ BelowAll(last.levelBefore) => Len(last.console) = 1

\* An error logged under the level "verbose" printed nothing.
C9_Witness ==
    /\ last.op = "error"
    /\ last.levelBefore = Str("verbose")
    /\ last.console = <<>>

\* ---- C10
\* C10: a constructed facade always holds a logger reference, so each of its
\* methods that forwards finds the reference set, does not return early and
\* calls the logger.
C10_RefNeverEmpty ==
    /\ \A f \in Facades : constructed[f] => loggerRef[f] # NoLogger
    /\ last.op \in LogOps \cup PassOps =>
          /\ last.refBefore # NoLogger
          /\ ~last.threw
          /\ Len(last.delegated) >= 1

\* reset was forwarded although the namespace is gone from the global object.
C10_Witness ==
    /\ last.op = "reset"
    /\ ~last.boxBefore
    /\ last.refBefore # NoLogger
    /\ Len(last.delegated) = 1

\* ---- C3
\* The control records of a list, in order.
Controls(l) == SelectSeq(l, LAMBDA r : r.message.metricCode = METRIC_CONTROL)
Measured(l) == SelectSeq(l, LAMBDA r : r.message.metricCode # METRIC_CONTROL)

\* What C3 says of the events but for the value of the trailing one: the
\* measured records come first, in order; a trailing control event is there
\* exactly when the input has a control record, it is the only event with
\* the control code, and its timestamp is the time of the call.
C3_Shape(l, now, events) ==
    /\ Len(events) = Len(Measured(l)) + (IF Controls(l) # <<>> THEN 1 ELSE 0)
    /\ \A i \in 1..Len(Measured(l)) :
          events[i] = [timestamp |-> Measured(l)[i].timestamp,
                       code |-> Measured(l)[i].message.metricCode,
                       value |-> Measured(l)[i].message.metricValue]
    /\ Controls(l) # <<>> =>
          /\ events[Len(events)].code = METRIC_CONTROL
          /\ events[Len(events)].timestamp = now
          /\ Len(events[Len(events)].value) = Len(Controls(l))

\* C3 as stated: the value of the trailing event is the list of the codes of
\* the control records. An element that is a code and nothing else is
\* written [code |-> c].
C3_ValueIsCodes ==
    last.op = "transformMetrics" =>
       /\ batch.event_type = LOG_CODES.metric
       /\ C3_Shape(last.args[1], last.args[2], batch.events)
       /\ Controls(last.args[1]) # <<>> =>
             batch.events[Len(batch.events)].value =
                [i \in 1..Len(Controls(last.args[1])) |->
                    [code |-> Controls(last.args[1])[i].message.metricValue]]

\* C3 amended: as stated, but the value of the trailing event is the list,
\* in input order, of one entry {timestamp, code} per control record: the
\* record's own timestamp and, as code, its metricValue.
C3_Amended ==
    last.op = "transformMetrics" =>
       /\ batch.event_type = LOG_CODES.metric
       /\ C3_Shape(last.args[1], last.args[2], batch.events)
       /\ Controls(last.args[1]) # <<>> =>
             batch.events[Len(batch.events)].value =
                [i \in 1..Len(Controls(last.args[1])) |->
                    [timestamp |-> Controls(last.args[1])[i].timestamp,
                     code |-> Controls(last.args[1])[i].message.metricValue]]

\* Two control records, transformed at a time that is neither's timestamp.
C3_Witness ==
    /\ last.op = "transformMetrics"
    /\ Len(Controls(last.args[1])) = 2
    /\ Len(batch.events) = 1
    /\ \A i \in 1..2 : Controls(last.args[1])[i].timestamp # last.args[2]
    /\ batch.events[1].timestamp = last.args[2]

\* ---- C4
GenericCode(op) ==
    CASE op = "transformWarnings" -> "WARNING"
      [] op = "transformInfo" -> "INFO"
      [] OTHER -> "ERROR"

\* C4: a generic transform for ERROR, WARNING or INFO returns a batch of that
\* event type with one event per record, in order, each the record's
\* timestamp, the event code and the record's message; the records are left
\* as they were.
C4_GenericMaps ==
    last.op \in {"transformWarnings", "transformInfo", "transformErrors"} =>
       /\ batch.event_type = GenericCode(last.op)
       /\ Len(batch.events) = Len(last.args[1])
       /\ \A i \in 1..Len(last.args[1]) :
             batch.events[i] = [timestamp |-> last.args[1][i].timestamp,
                                code |-> GenericCode(last.op),
                                value |-> last.args[1][i].message]
       /\ logs = last.args[1]

\* Two records with different timestamps became two WARNING events.
C4_Witness ==
    /\ last.op = "transformWarnings"
    /\ Len(batch.events) = 2
    /\ batch.events[1].timestamp # batch.events[2].timestamp
    /\ batch.events[2].code = "WARNING"

====
